---- MODULE Spec2Model ----
(***************************************************************************)
(* Model of csv-munge (src/src/CSVMunger.ts): one run of the bootstrap,    *)
(* which calls a survey function, which calls CSVMunger.munge, writes the  *)
(* rows as JSON and prints the card text.                                  *)
(*                                                                         *)
(* Strings of cell text are sequences of one-character strings, so that    *)
(* trim(), toLowerCase(), replaceAll() and Number() are computed, not      *)
(* assumed.  The parsed file (rawCSV) is revealed one record at a time:    *)
(* each MungeRow step draws the next record of the file.                   *)
(***************************************************************************)
EXTENDS Integers, Sequences, FiniteSets

\* Upper bound on the number of records of the parsed file.
MaxRecords == 3

----------------------------------------------------------------------------
\* Characters and strings

WhiteSpace == {" ", "\n"}

Digits == {"0", "1", "2", "3", "4", "5", "6", "7", "8", "9"}

\* String.prototype.trim: strips white space and line terminators at both ends
RECURSIVE TrimStart(_)
TrimStart(s) ==
    IF s # <<>> /\ Head(s) \in WhiteSpace THEN TrimStart(Tail(s)) ELSE s

RECURSIVE TrimEnd(_)
TrimEnd(s) ==
    IF s # <<>> /\ s[Len(s)] \in WhiteSpace
    THEN TrimEnd(SubSeq(s, 1, Len(s) - 1))
    ELSE s

Trim(s) == TrimEnd(TrimStart(s))

LowerChar(c) ==
    CASE c = "N" -> "n"
      [] c = "O" -> "o"
      [] c = "T" -> "t"
      [] c = "A" -> "a"
      [] c = "B" -> "b"
      [] OTHER -> c

\* String.prototype.toLowerCase
ToLowerCase(s) == [k \in 1..Len(s) |-> LowerChar(s[k])]

\* String.prototype.replaceAll(from, to) for a one-character pattern; returns
\* a new string and leaves the receiver unchanged
ReplaceAll(s, from, to) == [k \in 1..Len(s) |-> IF s[k] = from THEN to ELSE s[k]]

\* Array.prototype.includes
Includes(list, x) == \E k \in 1..Len(list) : list[k] = x

----------------------------------------------------------------------------
\* Values of a DataShape: number | string

Num(n) == [type |-> "number", nan |-> FALSE, num |-> n, text |-> <<>>]

NaN == [type |-> "number", nan |-> TRUE, num |-> 0, text |-> <<>>]

Str(s) == [type |-> "string", nan |-> FALSE, num |-> 0, text |-> s]

DigitValue(c) ==
    CASE c = "0" -> 0 [] c = "1" -> 1 [] c = "2" -> 2 [] c = "3" -> 3
      [] c = "4" -> 4 [] c = "5" -> 5 [] c = "6" -> 6 [] c = "7" -> 7
      [] c = "8" -> 8 [] c = "9" -> 9

IsDecimal(s) == s # <<>> /\ \A k \in 1..Len(s) : s[k] \in Digits

RECURSIVE DecimalValue(_)
DecimalValue(s) ==
    IF s = <<>> THEN 0
    ELSE 10 * DecimalValue(SubSeq(s, 1, Len(s) - 1)) + DigitValue(s[Len(s)])

\* A coercion that maps text that is not numeric to 0 instead of NaN
Number_zero(s) ==
    IF IsDecimal(Trim(s)) THEN Num(DecimalValue(Trim(s))) ELSE Num(0)

\* Number(string): white space is stripped, the empty string is 0, a run of
\* decimal digits is its value, any other text over the model's characters is NaN
Number(s) ==
    IF Trim(s) = <<>> THEN Num(0)
    ELSE IF IsDecimal(Trim(s)) THEN Num(DecimalValue(Trim(s)))
    ELSE NaN

RECURSIVE NumToChars(_)
NumToChars(n) ==
    IF n < 10 THEN <<CHOOSE c \in Digits : DigitValue(c) = n>>
    ELSE Append(NumToChars(n \div 10), CHOOSE c \in Digits : DigitValue(c) = n % 10)

\* value + "..." : string conversion of a number | string
ToString(v) ==
    IF v.type = "string" THEN v.text
    ELSE IF v.nan THEN <<"N", "a", "N">>
    ELSE NumToChars(v.num)

----------------------------------------------------------------------------
\* Configuration and input

Columns == {"Q3", "Q4"}

\* CSVShape values
Q3_IU == [csvColName |-> "Q3", outName |-> "IU", kind |-> "string"]

Q4_AIC == [csvColName |-> "Q4", outName |-> "AIC", kind |-> "string"]

Q3_Num == [csvColName |-> "Q3", outName |-> "IU", kind |-> "number"]

Q3_RowNum == [csvColName |-> "Q3", outName |-> "csvRowNum", kind |-> "string"]

\* the csvShapes lists a survey function may pass to munge
ShapeLists == { <<Q3_IU, Q4_AIC>>, <<Q3_Num, Q4_AIC>>, <<Q3_RowNum, Q4_AIC>> }

\* the valuesToIgnore lists a survey function may pass to munge
IgnoreLists == { << <<"n", "o">> >>, << <<"N", "o">> >> }

\* a cell of a parsed record: the column is missing, or holds a raw string
Undefined == [present |-> FALSE, text |-> <<>>]

Cell(t) == [present |-> TRUE, text |-> t]

CellTexts ==
    { <<" ">>,
      <<" ", "N", "o">>,
      <<"n", "o", "\n", "t">>,
      <<"1", "2">> }

Cells == {Undefined} \cup {Cell(t) : t \in CellTexts}

\* a record of the parsed file: header name -> cell
Records == [Columns -> Cells]

NoRecord == [c \in Columns |-> Undefined]

----------------------------------------------------------------------------
\* CSVMunger.munge, the body of the loops

\* The emptiness test made on the raw value instead of the trimmed one
ShapeCell_lenBeforeTrim(r, s, ignore) ==
    IF ~r[s.csvColName].present THEN <<>>
    ELSE LET raw == r[s.csvColName].text
             rawValue == Trim(raw)
         IN IF Len(raw) > 0 /\ ~Includes(ignore, ToLowerCase(rawValue))
            THEN << [name |-> s.outName,
                     value |-> IF s.kind = "number" THEN Number(rawValue)
                               ELSE Str(rawValue)] >>
            ELSE <<>>

\* One iteration of the inner loop: the DataShapes (none or one) that shape s
\* adds to the data row of record r.  The result of replaceAll is discarded
\* by the code, so the value kept is the trimmed one.
ShapeCell(r, s, ignore) ==
    IF ~r[s.csvColName].present THEN <<>>
    ELSE LET rawValue == Trim(r[s.csvColName].text)
         IN IF Len(rawValue) > 0 /\ ~Includes(ignore, ToLowerCase(rawValue))
            THEN << [name |-> s.outName,
                     value |-> IF s.kind = "number" THEN Number(rawValue)
                               ELSE Str(rawValue)] >>
            ELSE <<>>

\* An inner loop that stops at the first missing column
RECURSIVE DataRowOf_break(_, _, _)
DataRowOf_break(r, shape, ignore) ==
    IF shape = <<>> THEN <<>>
    ELSE IF ~r[Head(shape).csvColName].present THEN <<>>
    ELSE ShapeCell(r, Head(shape), ignore) \o DataRowOf_break(r, Tail(shape), ignore)

\* The inner loop: dataRow after all shapes were visited, before the id
RECURSIVE DataRowOf(_, _, _)
DataRowOf(r, shape, ignore) ==
    IF shape = <<>> THEN <<>>
    ELSE ShapeCell(r, Head(shape), ignore) \o DataRowOf(r, Tail(shape), ignore)

\* An id that counts from one
WithId_fromOne(rows, fields) ==
    IF Len(fields) > 0
    THEN << [name |-> "csvRowNum", value |-> Num(Len(rows) + 1)] >> \o fields
    ELSE fields

\* An id that is pushed instead of unshifted
WithId_push(rows, fields) ==
    IF Len(fields) > 0
    THEN Append(fields, [name |-> "csvRowNum", value |-> Num(Len(rows))])
    ELSE fields

\* dataRow at the end of the iteration: the id shape is unshifted when the
\* row holds data
WithId(rows, fields) ==
    IF Len(fields) > 0
    THEN << [name |-> "csvRowNum", value |-> Num(Len(rows))] >> \o fields
    ELSE fields

\* A push that is not guarded by the data row holding data
PushRow_always(rows, fields) == Append(rows, WithId(rows, fields))

\* ret at the end of the iteration
PushRow(rows, fields) ==
    IF Len(fields) > 0 THEN Append(rows, WithId(rows, fields)) ELSE rows

----------------------------------------------------------------------------
\* The card text of the survey functions

\* col.value + " (r" + id + "_" + col.name + ")\n\n\n"
CardEntry(col, id) ==
    ToString(col.value) \o <<" (r">> \o ToString(id) \o <<"_", col.name, ")", "\n", "\n", "\n">>

RECURSIVE CardsOfRow(_, _)
CardsOfRow(cols, id) ==
    IF cols = <<>> THEN <<>>
    ELSE (IF Head(cols).name # "csvRowNum" THEN CardEntry(Head(cols), id) ELSE <<>>)
         \o CardsOfRow(Tail(cols), id)

RECURSIVE Cards(_)
Cards(rows) ==
    IF rows = <<>> THEN <<>>
    ELSE CardsOfRow(Head(rows), Head(rows)[1].value) \o Cards(Tail(rows))

----------------------------------------------------------------------------
\* State

VARIABLES
    pc,              \* position of the run
    shape,           \* csvShapes passed to munge
    valuesToIgnore,  \* valuesToIgnore passed to munge
    n,               \* number of records of rawCSV visited by the outer loop
    row,             \* the record of the current iteration
    dataRow,         \* dataRow at the end of the current iteration
    ret,             \* rows accepted so far
    retPresent,      \* ret of the same run over the file in which every
                     \* missing column is present and blank
    outFile,         \* content written to the output file
    strOut,          \* card text printed by the survey function
    err,             \* the rejection travelling up the await chain
    stderr,          \* lines written by console.error
    exitCode         \* exit status of the process

vars == <<pc, shape, valuesToIgnore, n, row, dataRow, ret, retPresent,
          outFile, strOut, err, stderr, exitCode>>

Blanks == { <<>>, <<" ", "\n">> }

\* the record r with every missing column present and holding blank
FillMissing(r, blank) ==
    [c \in Columns |-> IF r[c].present THEN r[c] ELSE Cell(blank)]

Init ==
    /\ pc = "start"
    /\ shape \in ShapeLists
    /\ valuesToIgnore \in IgnoreLists
    /\ n = 0
    /\ row = NoRecord
    /\ dataRow = <<>>
    /\ ret = <<>>
    /\ retPresent = <<>>
    /\ outFile = <<>>
    /\ strOut = <<>>
    /\ err = "none"
    /\ stderr = <<>>
    /\ exitCode = 0

mungeLocals == <<n, row, dataRow, ret, retPresent>>

\* fs.realpathSync resolves the input path
RealpathOk ==
    /\ pc = "start"
    /\ pc' = "parse"
    /\ UNCHANGED <<shape, valuesToIgnore, mungeLocals, outFile, strOut, err, stderr, exitCode>>

\* fs.realpathSync throws: munge rejects, the survey function rejects
RealpathThrows ==
    /\ pc = "start"
    /\ pc' = "catch"
    /\ err' = "ENOENT: no such file or directory"
    /\ UNCHANGED <<shape, valuesToIgnore, mungeLocals, outFile, strOut, stderr, exitCode>>

\* the parser calls back with data: parseCSV fulfils
ParseFulfill ==
    /\ pc = "parse"
    /\ pc' = "munge"
    /\ UNCHANGED <<shape, valuesToIgnore, mungeLocals, outFile, strOut, err, stderr, exitCode>>

\* the parser calls back with err: parseCSV rejects
ParseReject ==
    /\ pc = "parse"
    /\ pc' = "catch"
    /\ err' = "CSV parse error"
    /\ UNCHANGED <<shape, valuesToIgnore, mungeLocals, outFile, strOut, stderr, exitCode>>

\* one iteration of the outer loop of munge over the next record
MungeRow ==
    /\ pc = "munge"
    /\ n < MaxRecords
    /\ \E r \in Records, blank \in Blanks :
          /\ row' = r
          /\ dataRow' = WithId(ret, DataRowOf(r, shape, valuesToIgnore))
          /\ ret' = PushRow(ret, DataRowOf(r, shape, valuesToIgnore))
          /\ retPresent' = PushRow(retPresent,
                                   DataRowOf(FillMissing(r, blank), shape, valuesToIgnore))
    /\ n' = n + 1
    /\ UNCHANGED <<pc, shape, valuesToIgnore, outFile, strOut, err, stderr, exitCode>>

\* the outer loop ends and munge returns ret
MungeReturn ==
    /\ pc = "munge"
    /\ pc' = "write"
    /\ n' = 0
    /\ row' = NoRecord
    /\ dataRow' = <<>>
    /\ UNCHANGED <<shape, valuesToIgnore, ret, retPresent, outFile, strOut, err, stderr, exitCode>>

\* fs.writeJson(outF, rows)
WriteJson ==
    /\ pc = "write"
    /\ outFile' = ret
    /\ pc' = "cards"
    /\ UNCHANGED <<shape, valuesToIgnore, mungeLocals, strOut, err, stderr, exitCode>>

\* the card loop of the survey function and console.log(strOut)
PrintCards ==
    /\ pc = "cards"
    /\ strOut' = Cards(ret)
    /\ pc' = "done"
    /\ UNCHANGED <<shape, valuesToIgnore, mungeLocals, outFile, err, stderr, exitCode>>

\* the bootstrap after the awaited survey function returned
MainDone ==
    /\ pc = "done"
    /\ pc' = "exited"
    /\ UNCHANGED <<shape, valuesToIgnore, mungeLocals, outFile, strOut, err, stderr, exitCode>>

\* the catch block of the bootstrap: the error is logged, nothing else
MainCatch ==
    /\ pc = "catch"
    /\ stderr' = Append(stderr, <<"CSVMunger::main() - ERROR: ", err>>)
    /\ pc' = "exited"
    /\ UNCHANGED <<shape, valuesToIgnore, mungeLocals, outFile, strOut, err, exitCode>>

Next ==
    \/ RealpathOk
    \/ RealpathThrows
    \/ ParseFulfill
    \/ ParseReject
    \/ MungeRow
    \/ MungeReturn
    \/ WriteJson
    \/ PrintCards
    \/ MainDone
    \/ MainCatch

Spec == Init /\ [][Next]_vars

----------------------------------------------------------------------------
\* Vocabulary of the properties

\* row and dataRow are those of a finished iteration of the outer loop
AfterRow == pc = "munge" /\ n > 0

\* the shape-derived part of a data row
Fields(dr) == IF dr = <<>> THEN <<>> ELSE Tail(dr)

Names(fs) == [k \in 1..Len(fs) |-> fs[k].name]

OutNames(ss) == [k \in 1..Len(ss) |-> ss[k].outName]

NonBlank(r, s) ==
    r[s.csvColName].present /\ Trim(r[s.csvColName].text) # <<>>

\* the cell of r under shape s is present, not blank and not on the ignore list
Survives(r, s) ==
    /\ NonBlank(r, s)
    /\ ~Includes(valuesToIgnore, ToLowerCase(Trim(r[s.csvColName].text)))

SurvivingShapes == SelectSeq(shape, LAMBDA s : Survives(row, s))

\* t matches an ignore-list entry when both are compared without case
MatchesIgnoringCase(t) ==
    \E k \in 1..Len(valuesToIgnore) :
        ToLowerCase(Trim(t)) = ToLowerCase(valuesToIgnore[k])

RECURSIVE IsSubseq(_, _)
IsSubseq(a, b) ==
    IF a = <<>> THEN TRUE
    ELSE IF b = <<>> THEN FALSE
    ELSE IF Head(a) = Head(b) THEN IsSubseq(Tail(a), Tail(b))
    ELSE IsSubseq(a, Tail(b))

\* the card text with one entry per element after the first of every row
RECURSIVE EntriesOf(_, _)
EntriesOf(cols, id) ==
    IF cols = <<>> THEN <<>>
    ELSE CardEntry(Head(cols), id) \o EntriesOf(Tail(cols), id)

RECURSIVE ExpectedCards(_)
ExpectedCards(rows) ==
    IF rows = <<>> THEN <<>>
    ELSE EntriesOf(Tail(Head(rows)), Head(rows)[1].value) \o ExpectedCards(Tail(rows))

----------------------------------------------------------------------------
\* C1: the identity values of the rows returned by munge are 0, 1, ..., n-1
\* in output order, however many input records were dropped.
C1_DenseIds ==
    \A k \in 1..Len(ret) :
        /\ ret[k][1].name = "csvRowNum"
        /\ ret[k][1].value = Num(k - 1)

\* two rows were kept out of three records, the last one kept
C1_Witness == AfterRow /\ n = 3 /\ Len(ret) = 2 /\ dataRow # <<>>

\* C2: a cell that is empty after trimming never produces a field, for either
\* kind: no output value is the empty string, and a row has no more fields
\* than its record has non-blank cells under the configured shapes.
C2_NoEmptyValue ==
    /\ \A k \in 1..Len(ret) : \A j \in 1..Len(ret[k]) :
          ~(ret[k][j].value.type = "string" /\ ret[k][j].value.text = <<>>)
    /\ AfterRow =>
          Len(Fields(dataRow)) <= Len(SelectSeq(shape, LAMBDA s : NonBlank(row, s)))

\* a kept row whose record holds a white-space cell under a number shape
C2_Witness ==
    /\ AfterRow
    /\ shape[1].kind = "number"
    /\ row["Q3"] = Cell(<<" ">>)
    /\ Len(dataRow) = 2

\* C3 (as claimed): a cell is excluded whenever its trimmed text equals an
\* ignore-list entry without regard to the case of either, and is not excluded
\* for merely containing an entry: the fields of a row are those of the shapes
\* whose cell is non-blank and matches no entry.
C3_Original ==
    AfterRow =>
        Names(Fields(dataRow)) =
            OutNames(SelectSeq(shape,
                LAMBDA s : NonBlank(row, s)
                           /\ ~MatchesIgnoringCase(row[s.csvColName].text)))

\* C4 (as claimed): a surviving text value is the trimmed raw string with
\* every newline replaced by a space, so no text value holds a newline.
C4_Original ==
    /\ \A k \in 1..Len(ret) : \A j \in 1..Len(ret[k]) :
          ret[k][j].value.type = "string" =>
              \A i \in 1..Len(ret[k][j].value.text) : ret[k][j].value.text[i] # "\n"
    /\ AfterRow =>
          /\ Len(Fields(dataRow)) = Len(SurvivingShapes)
          /\ \A j \in 1..Len(SurvivingShapes) :
                SurvivingShapes[j].kind = "string" =>
                    Fields(dataRow)[j].value =
                        Str(ReplaceAll(Trim(row[SurvivingShapes[j].csvColName].text), "\n", " "))

\* every returned row is non-empty, starts with the identity field named
\* idName and goes on with the surviving fields in configuration order
RowLayout(idName) ==
    /\ \A k \in 1..Len(ret) :
          /\ Len(ret[k]) >= 1
          /\ ret[k][1].name = idName
          /\ ret[k][1].value.type = "number"
          /\ IsSubseq(Names(Tail(ret[k])), OutNames(shape))
    /\ (AfterRow /\ dataRow # <<>>) =>
          /\ dataRow = ret[Len(ret)]
          /\ Names(Tail(dataRow)) = OutNames(SurvivingShapes)

\* C5 (as claimed): every returned row is non-empty, its first element is the
\* identity field named "rowId", the rest are the surviving shape-derived
\* fields in configuration order.
C5_Original == RowLayout("rowId")

\* C5 (amended): every returned row is non-empty, its first element is the
\* identity field named "csvRowNum", the rest are the surviving shape-derived
\* fields in configuration order, each named by its shape's output name.
C5_RowLayout == RowLayout("csvRowNum")

\* a row with both configured fields
C5_Witness ==
    /\ AfterRow
    /\ Len(dataRow) = 3
    /\ dataRow[2].name = "IU"
    /\ dataRow[3].name = "AIC"

\* C6: a record with a configured column missing yields the same output as
\* the record with that column present and blank, and the missing column does
\* not abort the run.
C6_MissingAsBlank ==
    /\ ret = retPresent
    /\ pc \in {"munge", "write", "cards", "done"} => err = "none"

\* the first column is missing and the second shape still yields its field
C6_Witness ==
    /\ AfterRow
    /\ ~row["Q3"].present
    /\ row["Q4"].present
    /\ Len(dataRow) = 2
    /\ Len(ret) = 2

\* C7: a record yields an output row if and only if one of its cells
\* survives; otherwise nothing is appended and the next identity is not
\* advanced, and no row consists of the identity field alone.
C7_RowIffSurvivor ==
    [][ n' = n + 1 =>
          /\ (\E j \in 1..Len(shape) : Survives(row', shape[j]))
                => (Len(ret') = Len(ret) + 1 /\ dataRow' # <<>>)
          /\ ~(\E j \in 1..Len(shape) : Survives(row', shape[j]))
                => (ret' = ret /\ dataRow' = <<>>)
          /\ \A k \in 1..Len(ret') : Len(ret'[k]) >= 2 ]_vars

\* a record with present cells was dropped after a row was kept
C7_Witness ==
    /\ AfterRow
    /\ dataRow = <<>>
    /\ row["Q3"].present
    /\ row["Q4"].present
    /\ Len(ret) = 1
    /\ n = 2

\* C8 (as claimed): a run that hit a fatal condition ends with a non-zero
\* exit status and a message.
C8_Original ==
    (pc = "exited" /\ err # "none") => (exitCode # 0 /\ stderr # <<>>)

\* C9 (as claimed): the card text holds exactly one entry per shape-derived
\* field of every row, whatever its name, in row order then field order, and
\* none for the identity field.
C9_Original ==
    (pc \in {"done", "exited"} /\ err = "none") => strOut = ExpectedCards(ret)

\* C10: under a number shape a surviving decimal numeral yields its numeric
\* value ("12" yields 12), any other surviving text yields NaN, and nothing is
\* thrown.
C10_NumberCoercion ==
    AfterRow =>
        /\ err = "none"
        /\ Len(Fields(dataRow)) = Len(SurvivingShapes)
        /\ \A j \in 1..Len(SurvivingShapes) :
              LET t == Trim(row[SurvivingShapes[j].csvColName].text)
                  v == Fields(dataRow)[j].value
              IN SurvivingShapes[j].kind = "number" =>
                    /\ (t = <<"1", "2">> => v = Num(12))
                    /\ (IsDecimal(t) => v = Num(DecimalValue(t)))
                    /\ (~IsDecimal(t) => v = NaN)

\* a NaN field followed by a text field in the first row, then a row with 12
C10_Witness ==
    /\ AfterRow
    /\ Len(ret) = 2
    /\ Len(ret[1]) = 3
    /\ ret[1][2].value = NaN
    /\ ret[2][2].value = Num(12)

====
